---- MODULE Spec2Model ----
(***************************************************************************)
(* partitionSync: the labeled stream synchronizer of the transducers       *)
(* package (src/unnamed/part_004).  The transducer wraps a downstream      *)
(* reducer [init, complete, reduce] and returns the reducer whose step is  *)
(* called here "ingest" and whose completion is called "complete".         *)
(***************************************************************************)
EXTENDS Integers, Sequences, FiniteSets, TLC

\* ------------------------------------------------------------------ bounds

\* longest input sequence a caller feeds (the documented sequence DocSrc is
\* fed in full, whatever this bound)
MaxInputs == 4

\* largest backPressure option
MaxBackPressure == 2

\* number of external add/remove operations on the key set in one run
MaxMutations == 1

\* ------------------------------------------------------------- input data

\* every label an input value may carry
Labels == {"a", "b", "c", "d"}

\* labels of arbitrary (undocumented) input sequences and of key sets
FreeLabels == {"a", "b", "c"}

\* the labels of the `src` array of the doc comment, in order
DocSrc == <<"a", "a", "d", "b", "b", "c", "a">>

\* the key array ["a", "b"] of the doc comment
DocKeys == {"a", "b"}

\* the key sets an instance is created with: one of each size (the code
\* treats all labels alike, so a key set stands for its renamings)
InitKeySets == {{}, {"a"}, {"a", "b"}, {"a", "b", "c"}}

\* the i-th value carrying label k; inputs are pairs [label, payload]
Val(k, i) == <<k, i>>

\* the `key` option of the doc comment: (x) => x[0]
key(x) == x[1]

\* value of a missing property / of shift() on an empty array
undefined == <<"undefined", 0>>

\* the thrown IllegalState error, or none
NoError == [thrown |-> FALSE]
IllegalState(k, limit) == [thrown |-> TRUE, input |-> k, limit |-> limit]

VARIABLES
    mergeOnly,      \* option
    reset,          \* option
    all,            \* option
    backPressure,   \* option
    ks,             \* the key set (shared with the caller when given as a Set)
    curr,           \* current tuple: function label -> value
    currKeys,       \* labels present
    first,          \* no tuple produced by a step yet
    cache,          \* backpressure mode: function label -> queued values
    log,            \* the run so far: step calls received, downstream calls made
    reduced,        \* the accumulator last returned by reduce is Reduced
    inputs,         \* labels of the values passed to the step function so far
    phase,          \* "open", "completed" (once), "recompleted" (twice)
    err,            \* error thrown by the last step call
    mutations       \* number of external modifications of the key set

vars == <<mergeOnly, reset, all, backPressure, ks, curr, currKeys, first,
          cache, log, reduced, inputs, phase, err, mutations>>

opts == <<mergeOnly, reset, all, backPressure>>

\* ---------------------------------------------------------------- helpers

\* the empty object {}
EmptyObj == [l \in {} |-> undefined]

\* obj[k] = x
Put(obj, k, x) == [l \in (DOMAIN obj) \cup {k} |-> IF l = k THEN x ELSE obj[l]]

\* entries of the log: a call of the step function with value x, and the calls
\* reduce(acc, tuple) and complete(acc) made on the downstream reducer; a
\* reduce entry records whether the downstream returned a Reduced accumulator
IngestEv(x) == [op |-> "ingest", arg |-> x, reduced |-> FALSE]
StepEv(t, r) == [op |-> "step", arg |-> t, reduced |-> r]
CompleteEv == [op |-> "complete", arg |-> EmptyObj, reduced |-> FALSE]

\* the reduce calls of one drain loop; the stopAt-th returns Reduced
StepEvs(tuples, stopAt) ==
    [i \in 1..Len(tuples) |-> StepEv(tuples[i], i = stopAt)]

\* the arguments of the log's entries of one kind, in order
RECURSIVE ArgsOf(_, _)
ArgsOf(l, op) ==
    IF l = <<>> THEN <<>>
    ELSE IF Head(l).op = op THEN <<Head(l).arg>> \o ArgsOf(Tail(l), op)
    ELSE ArgsOf(Tail(l), op)

\* the tuples delivered to the downstream reduce, in order
Emitted == ArgsOf(log, "step")

\* number of earlier inputs carrying label k
Count(s, k) == Cardinality({i \in 1..Len(s) : s[i] = k})

\* the value the caller passes next for label k
NextVal(k) == Val(k, Count(inputs, k) + 1)

\* ------------------------------------------------------- pure code helpers

\* mergeOnly || backPressure < 1
UnboundedMode == mergeOnly \/ backPressure < 1

\* accepts every label
Allowed_any(k) == TRUE

\* ks.has(k)
Allowed(k) == k \in ks

\* emits as soon as any required label is present
requiredInputs_some(required, cur) ==
    IF Cardinality(cur) < 1 THEN FALSE
    ELSE \E id \in required : id \in cur

\* compares the sizes only
requiredInputs_sizeOnly(required, cur) ==
    Cardinality(cur) >= Cardinality(required)

requiredInputs(required, cur) ==
    IF Cardinality(cur) < Cardinality(required) THEN FALSE
    ELSE \A id \in required : id \in cur

\* slot.shift()
Shift(slot) == IF slot = <<>> THEN undefined ELSE Head(slot)
\* reads the front without removing it
Rest_peek(slot) == slot

Rest(slot) == IF slot = <<>> THEN <<>> ELSE Tail(slot)

\* takes the newest queued value instead of the oldest (pop for shift)
collect_pop(c, keys) ==
    [curr |-> [id \in keys |-> IF c[id] = <<>> THEN undefined
                               ELSE c[id][Len(c[id])]],
     cache |-> [id \in DOMAIN c |->
                    IF id \in keys /\ c[id] # <<>>
                    THEN SubSeq(c[id], 1, Len(c[id]) - 1) ELSE c[id]],
     currKeys |-> {id \in keys : Len(c[id]) > 1}]

\* deletes every collected label from the key set, its queue empty or not
collect_dropKeys(c, keys) ==
    [curr |-> [id \in keys |-> Shift(c[id])],
     cache |-> [id \in DOMAIN c |-> IF id \in keys THEN Rest(c[id]) ELSE c[id]],
     currKeys |-> {}]

\* never deletes a label whose queue it emptied
collect_keepKeys(c, keys) ==
    [curr |-> [id \in keys |-> Shift(c[id])],
     cache |-> [id \in DOMAIN c |-> IF id \in keys THEN Rest(c[id]) ELSE c[id]],
     currKeys |-> keys]

\* collect(): the tuple of the fronts, the cache and key set it leaves
collect(c, keys) ==
    [curr |-> [id \in keys |-> Shift(c[id])],
     cache |-> [id \in DOMAIN c |-> IF id \in keys THEN Rest(c[id]) ELSE c[id]],
     currKeys |-> {id \in keys : Len(Rest(c[id])) > 0}]

\* off by one: throws only once the limit is already exceeded
Overflow_gt(slot) == Len(slot) > backPressure

\* the limit is never checked
Overflow_off(slot) == FALSE

\* slot.length >= backPressure
Overflow(slot) == Len(slot) >= backPressure

\* more iterations than the queues of any reachable state can feed: the
\* unrolling of the loop stops there, so that a loop that would not end shows
\* as a call that delivered DrainCap tuples
DrainCap == Cardinality(Labels) * MaxBackPressure + 1

\* goes on after the downstream returned a Reduced accumulator (no break)
RECURSIVE drain_noBreak(_, _, _, _, _)
drain_noBreak(required, c, keys, tuples, stopAt) ==
    IF requiredInputs(required, keys) /\ Len(tuples) < DrainCap
    THEN LET r == collect(c, keys)
         IN  drain_noBreak(required, r.cache, r.currKeys,
                           Append(tuples, r.curr), stopAt)
    ELSE [cache |-> c, currKeys |-> keys, tuples |-> tuples,
          reduced |-> stopAt \in 1..Len(tuples)]

\* `if` for `while`: at most one tuple per call
drain_once(required, c, keys, tuples, stopAt) ==
    IF requiredInputs(required, keys)
    THEN LET r == collect(c, keys)
         IN  [cache |-> r.cache, currKeys |-> r.currKeys,
              tuples |-> Append(tuples, r.curr), reduced |-> stopAt = 1]
    ELSE [cache |-> c, currKeys |-> keys, tuples |-> tuples, reduced |-> FALSE]

\* the while loop of the backpressure step; stopAt is the number of the reduce
\* call of this loop that returns a Reduced accumulator (0: none does)
RECURSIVE drain(_, _, _, _, _)
drain(required, c, keys, tuples, stopAt) ==
    IF requiredInputs(required, keys) /\ Len(tuples) < DrainCap
    THEN LET r == collect(c, keys)
             e == Append(tuples, r.curr)
         IN  IF Len(e) = stopAt
             THEN [cache |-> r.cache, currKeys |-> r.currKeys, tuples |-> e,
                   reduced |-> TRUE]
             ELSE drain(required, r.cache, r.currKeys, e, stopAt)
    ELSE [cache |-> c, currKeys |-> keys, tuples |-> tuples, reduced |-> FALSE]

\* total number of queued values
RECURSIVE SumLen(_, _)
SumLen(c, ids) ==
    IF ids = {} THEN 0
    ELSE LET id == CHOOSE i \in ids : TRUE
         IN  Len(c[id]) + SumLen(c, ids \ {id})

Buffered(c) == SumLen(c, DOMAIN c)

\* ------------------------------------------------------------------- Init

Init ==
    /\ mergeOnly \in BOOLEAN
    /\ reset \in BOOLEAN
    /\ all \in BOOLEAN
    /\ backPressure \in 0..MaxBackPressure
    /\ ks \in InitKeySets
    /\ curr = EmptyObj
    /\ currKeys = {}
    /\ first = TRUE
    /\ cache = EmptyObj
    /\ log = <<>>
    /\ reduced = FALSE
    /\ inputs = <<>>
    /\ phase = "open"
    /\ err = NoError
    /\ mutations = 0

\* ----------------------------------------------------------------- caller

IsPrefix(s, t) == Len(s) <= Len(t) /\ \A i \in 1..Len(s) : s[i] = t[i]

\* the input sequences fed: every sequence over FreeLabels up to MaxInputs,
\* and the documented sequence
FeedsNext(k) ==
    \/ Len(inputs) < MaxInputs /\ k \in FreeLabels
    \/ IsPrefix(Append(inputs, k), DocSrc)

\* the reduction driver calls the step function while the input lasts, no
\* error was thrown and the accumulator is not Reduced
MayStep == phase = "open" /\ ~err.thrown /\ ~reduced

\* completion follows the input; a caller may complete a second time
MayComplete == phase \in {"open", "completed"} /\ ~err.thrown

NextPhase == IF phase = "open" THEN "completed" ELSE "recompleted"

\* -------------------------------------------------------- unbounded mode

\* the log once the step function is entered with x
Entered(x) == Append(log, IngestEv(x))

\* clears the tuple after every emission, whatever `reset`
AfterEmit_clear(c1, keys1) == [curr |-> EmptyObj, currKeys |-> {}]

\* what follows reduce(acc, curr) in the step: curr and currKeys cleared
\* (reset) or curr copied and currKeys kept
AfterEmit(c1, keys1) ==
    IF reset THEN [curr |-> EmptyObj, currKeys |-> {}]
    ELSE [curr |-> c1, currKeys |-> keys1]

\* (acc, x) => ... of the first branch; t: reduce returns Reduced
UnboundedStep(x, t) ==
    LET k == key(x) IN
    IF Allowed(k)
    THEN LET c1 == Put(curr, k, x)
             keys1 == currKeys \cup {k}
         IN  IF mergeOnly \/ requiredInputs(ks, keys1)
             THEN /\ log' = Append(Entered(x), StepEv(c1, t))
                  /\ reduced' = t
                  /\ first' = FALSE
                  /\ curr' = AfterEmit(c1, keys1).curr
                  /\ currKeys' = AfterEmit(c1, keys1).currKeys
             ELSE /\ curr' = c1
                  /\ currKeys' = keys1
                  /\ log' = Entered(x)
                  /\ UNCHANGED <<reduced, first>>
    ELSE /\ log' = Entered(x)
         /\ UNCHANGED <<curr, currKeys, reduced, first>>

\* flushes at every completion call
UnboundedFlush_always == TRUE

\* flushes whenever no step emitted, whatever `reset`
UnboundedFlush_anyFirst ==
    (reset /\ all /\ Cardinality(currKeys) > 0) \/ first

\* the flush condition of the first branch's completion
UnboundedFlush ==
    (reset /\ all /\ Cardinality(currKeys) > 0) \/ (~reset /\ first)

\* forgets `first = false` after the flush
UnboundedComplete_keepFirst(t) ==
    IF UnboundedFlush
    THEN /\ log' = log \o <<StepEv(curr, t), CompleteEv>>
         /\ reduced' = t
         /\ curr' = EmptyObj
         /\ currKeys' = {}
         /\ first' = first
    ELSE /\ log' = Append(log, CompleteEv)
         /\ UNCHANGED <<reduced, curr, currKeys, first>>

\* (acc) => ... of the first branch
UnboundedComplete(t) ==
    IF UnboundedFlush
    THEN /\ log' = log \o <<StepEv(curr, t), CompleteEv>>
         /\ reduced' = t
         /\ curr' = EmptyObj
         /\ currKeys' = {}
         /\ first' = FALSE
    ELSE /\ log' = Append(log, CompleteEv)
         /\ UNCHANGED <<reduced, curr, currKeys, first>>

\* ------------------------------------------------------ backpressure mode

\* pushes the value before it checks the limit
BackPressureStep_pushFirst(x, stopAt) ==
    LET k == key(x) IN
    IF Allowed(k)
    THEN LET slot == IF k \in DOMAIN cache THEN cache[k] ELSE <<>>
         IN  IF Overflow(slot)
             THEN /\ err' = IllegalState(k, backPressure)
                  /\ cache' = Put(cache, k, Append(slot, x))
                  /\ log' = Entered(x)
                  /\ UNCHANGED <<currKeys, reduced, first>>
             ELSE LET c1 == Put(cache, k, Append(slot, x))
                      keys1 == currKeys \cup {k}
                      r == drain(ks, c1, keys1, <<>>, stopAt)
                  IN  /\ cache' = r.cache
                      /\ currKeys' = r.currKeys
                      /\ log' = Entered(x) \o StepEvs(r.tuples, stopAt)
                      /\ reduced' = r.reduced
                      /\ first' = (first /\ r.tuples = <<>>)
                      /\ err' = NoError
    ELSE /\ log' = Entered(x)
         /\ UNCHANGED <<cache, currKeys, reduced, first, err>>

\* (acc, x) => ... of the second branch
BackPressureStep(x, stopAt) ==
    LET k == key(x) IN
    IF Allowed(k)
    THEN LET slot == IF k \in DOMAIN cache THEN cache[k] ELSE <<>>
         IN  IF Overflow(slot)
             THEN /\ err' = IllegalState(k, backPressure)
                  /\ cache' = Put(cache, k, slot)
                  /\ log' = Entered(x)
                  /\ UNCHANGED <<currKeys, reduced, first>>
             ELSE LET c1 == Put(cache, k, Append(slot, x))
                      keys1 == currKeys \cup {k}
                      r == drain(ks, c1, keys1, <<>>, stopAt)
                  IN  /\ cache' = r.cache
                      /\ currKeys' = r.currKeys
                      /\ log' = Entered(x) \o StepEvs(r.tuples, stopAt)
                      /\ reduced' = r.reduced
                      /\ first' = (first /\ r.tuples = <<>>)
                      /\ err' = NoError
    ELSE /\ log' = Entered(x)
         /\ UNCHANGED <<cache, currKeys, reduced, first, err>>

\* flushes whatever `all`
BackPressureFlush_ignoreAll == Cardinality(currKeys) > 0

\* the flush condition of the second branch's completion
BackPressureFlush == all /\ Cardinality(currKeys) > 0

\* completes downstream first and flushes afterwards
BackPressureComplete_completeFirst(t) ==
    IF BackPressureFlush
    THEN LET r == collect(cache, currKeys)
         IN  /\ log' = log \o <<CompleteEv, StepEv(r.curr, t)>>
             /\ reduced' = t
             /\ cache' = r.cache
             /\ currKeys' = {}
    ELSE /\ log' = Append(log, CompleteEv)
         /\ UNCHANGED <<reduced, cache, currKeys>>

\* (acc) => ... of the second branch
BackPressureComplete(t) ==
    IF BackPressureFlush
    THEN LET r == collect(cache, currKeys)
         IN  /\ log' = log \o <<StepEv(r.curr, t), CompleteEv>>
             /\ reduced' = t
             /\ cache' = r.cache
             /\ currKeys' = {}
    ELSE /\ log' = Append(log, CompleteEv)
         /\ UNCHANGED <<reduced, cache, currKeys>>

\* ---------------------------------------------------------------- actions

\* one call of the step function with the next value of label k
Ingest(k) ==
    /\ MayStep
    /\ FeedsNext(k)
    /\ inputs' = Append(inputs, k)
    /\ IF UnboundedMode
       THEN /\ \E t \in BOOLEAN : UnboundedStep(NextVal(k), t)
            /\ UNCHANGED <<cache, err>>
       ELSE /\ \E stopAt \in 0..(Buffered(cache) + 1) :
                    BackPressureStep(NextVal(k), stopAt)
            /\ UNCHANGED curr
    /\ UNCHANGED <<opts, ks, phase, mutations>>

\* one call of the completion function
Complete ==
    /\ MayComplete
    /\ phase' = NextPhase
    /\ IF UnboundedMode
       THEN /\ \E t \in BOOLEAN : UnboundedComplete(t)
            /\ UNCHANGED cache
       ELSE /\ \E t \in BOOLEAN : BackPressureComplete(t)
            /\ UNCHANGED <<curr, first>>
    /\ UNCHANGED <<opts, ks, inputs, err, mutations>>

\* the owner of the key set adds a label
AddKey(l) ==
    /\ phase = "open"
    /\ ~err.thrown
    /\ mutations < MaxMutations
    /\ l \notin ks
    /\ ks' = ks \cup {l}
    /\ mutations' = mutations + 1
    /\ UNCHANGED <<opts, curr, currKeys, first, cache, log, reduced, inputs,
                   phase, err>>

\* the owner of the key set deletes a label
DeleteKey(l) ==
    /\ phase = "open"
    /\ ~err.thrown
    /\ mutations < MaxMutations
    /\ l \in ks
    /\ ks' = ks \ {l}
    /\ mutations' = mutations + 1
    /\ UNCHANGED <<opts, curr, currKeys, first, cache, log, reduced, inputs,
                   phase, err>>

Next ==
    \/ \E k \in Labels : Ingest(k)
    \/ Complete
    \/ \E l \in FreeLabels : AddKey(l)
    \/ \E l \in FreeLabels : DeleteKey(l)

Spec == Init /\ [][Next]_vars

\* ------------------------------------------------- vocabulary of the claims

\* the default options
Default == ~mergeOnly /\ reset /\ all /\ backPressure = 0

\* the key set was never modified
Unmutated == mutations = 0

\* this step is one call of the step function / of the completion function
IsIngest == Len(inputs') = Len(inputs) + 1
IsComplete == phase' # phase

\* the value passed by the step call of this step
Ingested == Val(inputs'[Len(inputs')], Count(inputs', inputs'[Len(inputs')]))

\* the values passed to the step function since the last tuple was delivered
RECURSIVE SinceEmit(_)
SinceEmit(l) ==
    IF l = <<>> THEN <<>>
    ELSE LET e == l[Len(l)]
             front == SubSeq(l, 1, Len(l) - 1)
         IN  IF e.op = "step" THEN <<>>
             ELSE IF e.op = "ingest" THEN Append(SinceEmit(front), e.arg)
             ELSE SinceEmit(front)

\* label l occurs in the values s; the last value of s carrying it
Has(s, l) == \E i \in 1..Len(s) : key(s[i]) = l
Latest(s, l) ==
    s[CHOOSE i \in 1..Len(s) :
        key(s[i]) = l /\ \A j \in (i + 1)..Len(s) : key(s[j]) # l]

\* ------------------------------------------------------------------ claims

\* C1 (step): default options, key set never modified.  A step call delivers
\* a tuple exactly when its value's label is in the key set and every label
\* of the key set has received a value since the last delivered tuple; the
\* tuple maps every label of the key set to the latest value received for
\* it since then.
C1_Step ==
    (Default /\ Unmutated /\ IsIngest) =>
        LET seen == Append(SinceEmit(log), Ingested)
        IN  IF key(Ingested) \in ks /\ \A l \in ks : Has(seen, l)
            THEN Emitted' = Append(Emitted, [l \in ks |-> Latest(seen, l)])
            ELSE Emitted' = Emitted

\* C1 (documented run): keys {a, b}, input [a1, a2, d, b1, b2, c, a3], then
\* completion: exactly the tuples {a: a2, b: b1} and {a: a3, b: b2}.
C1_Doc ==
    (Default /\ Unmutated /\ ks = DocKeys /\ inputs = DocSrc /\ phase # "open") =>
        Emitted = << [l \in DocKeys |-> IF l = "a" THEN Val("a", 2) ELSE Val("b", 1)],
                     [l \in DocKeys |-> IF l = "a" THEN Val("a", 3) ELSE Val("b", 2)] >>

\* C1: in unbounded mode with the default options and an unmodified key set,
\* a tuple is delivered exactly when every label of the key set received a
\* value since the previous one, holding the most recent value of each;
\* values of other labels are dropped; the documented run gives the
\* documented result.
C1_LatestSync == [][C1_Step]_vars /\ []C1_Doc

\* C1 witness: the documented run, completed, with its two tuples delivered
C1_Witness ==
    /\ Default /\ Unmutated /\ ks = DocKeys /\ inputs = DocSrc
    /\ phase = "completed"
    /\ Len(Emitted) = 2
    /\ Emitted[2]["b"] = Val("b", 2)

\* the second branch is active
FifoMode == ~UnboundedMode

\* the tuple {a: x, b: y}
TupleAB(x, y) == [l \in {"a", "b"} |-> IF l = "a" THEN x ELSE y]

\* C2 (order): while only step calls were made, the n-th delivered tuple maps
\* every label of the key set to the n-th value received for that label.
C2_Order ==
    (FifoMode /\ Unmutated /\ phase = "open") =>
        \A n \in 1..Len(Emitted) : Emitted[n] = [l \in ks |-> Val(l, n)]

\* C2 (example): backPressure 2, keys {a, b}: after a1, a2, b1 exactly one
\* tuple {a: a1, b: b1} was delivered and a2 is still queued; after a
\* following b2 the second tuple is {a: a2, b: b2}.
C2_Example ==
    (FifoMode /\ Unmutated /\ phase = "open" /\ backPressure = 2
        /\ ks = {"a", "b"}) =>
        /\ inputs = <<"a", "a", "b">> =>
              /\ Emitted = << TupleAB(Val("a", 1), Val("b", 1)) >>
              /\ cache["a"] = << Val("a", 2) >>
        /\ inputs = <<"a", "a", "b", "b">> =>
              Emitted = << TupleAB(Val("a", 1), Val("b", 1)),
                           TupleAB(Val("a", 2), Val("b", 2)) >>

\* C2: in backpressure mode with an unmodified key set and either value of
\* reset, the n-th tuple delivered by the step calls holds the n-th value of
\* every label of the key set: per label the values leave in arrival order,
\* none skipped, none twice.
C2_FifoJoin == C2_Order /\ C2_Example

\* C2 witness: the example's two tuples delivered, with reset disabled
C2_Witness ==
    /\ FifoMode /\ Unmutated /\ phase = "open" /\ backPressure = 2 /\ ~reset
    /\ ks = {"a", "b"}
    /\ inputs = <<"a", "a", "b", "b">>
    /\ Len(Emitted) = 2

\* number of values queued for label k
Held(k) == IF k \in DOMAIN cache THEN Len(cache[k]) ELSE 0

\* C3 (step): a step call with a value whose label k is in the key set throws
\* exactly when k's queue holds backPressure values when the call is made; the
\* error names k and the limit.
C3_Step ==
    (FifoMode /\ IsIngest /\ key(Ingested) \in ks) =>
        IF Held(key(Ingested)) = backPressure
        THEN err' = IllegalState(key(Ingested), backPressure)
        ELSE err' = NoError

\* C3 (example): backPressure 1, keys {a, b}: the second a-value before any
\* b-value throws for input a and limit 1.
C3_Example ==
    (FifoMode /\ Unmutated /\ backPressure = 1 /\ ks = {"a", "b"}
        /\ inputs = <<"a", "a">>) => err = IllegalState("a", 1)

\* C3: in backpressure mode a step call for a label of the key set fails with
\* the overflow error exactly when that label's queue already holds
\* backPressure values, and the error identifies the label and the limit.
C3_Overflow == [][C3_Step]_vars /\ []C3_Example

\* C3 witness: the example's second a-value was rejected
C3_Witness ==
    /\ FifoMode /\ Unmutated /\ backPressure = 1 /\ ks = {"a", "b"}
    /\ inputs = <<"a", "a">>
    /\ err = IllegalState("a", 1)

\* C4: in backpressure mode no queue ever holds more than backPressure
\* values, whatever calls were made and however the key set was modified.
C4_QueueBound ==
    FifoMode => \A l \in DOMAIN cache : Len(cache[l]) <= backPressure

\* C4 witness: a full queue after the key set was modified and the run
\* completed
C4_Witness ==
    /\ FifoMode /\ backPressure = 2 /\ mutations > 0 /\ phase = "completed"
    /\ \E l \in DOMAIN cache : Len(cache[l]) = backPressure

\* C5 (step): reset and mergeOnly disabled, no backpressure, key set never
\* modified.  A step call delivers nothing until every label of the key set
\* has received a value; from then on every call with a label of the key set
\* delivers one tuple of the latest value of every label.
C5_Step ==
    (~mergeOnly /\ ~reset /\ backPressure = 0 /\ Unmutated /\ IsIngest) =>
        IF key(Ingested) \in ks /\ \A l \in ks : Count(inputs', l) > 0
        THEN Emitted' =
                Append(Emitted, [l \in ks |-> Val(l, Count(inputs', l))])
        ELSE Emitted' = Emitted

\* C5 (documented run): keys {a, b}, reset: false, input [a1, a2, d, b1, b2,
\* c, a3], then completion: {a: a2, b: b1}, {a: a2, b: b2}, {a: a3, b: b2}.
C5_Doc ==
    (~mergeOnly /\ ~reset /\ backPressure = 0 /\ Unmutated /\ ks = DocKeys
        /\ inputs = DocSrc /\ phase # "open") =>
        Emitted = << TupleAB(Val("a", 2), Val("b", 1)),
                     TupleAB(Val("a", 2), Val("b", 2)),
                     TupleAB(Val("a", 3), Val("b", 2)) >>

\* C5: without reset (unbounded mode, mergeOnly false, unmodified key set)
\* nothing is delivered before every label has a value, and afterwards every
\* value of a label of the key set delivers one tuple of the latest values,
\* older values of the other labels carried forward.
C5_CarryForward == [][C5_Step]_vars /\ []C5_Doc

\* C5 witness: the documented run with reset: false, completed
C5_Witness ==
    /\ ~mergeOnly /\ ~reset /\ backPressure = 0 /\ Unmutated /\ ks = DocKeys
    /\ inputs = DocSrc /\ phase = "completed"
    /\ Len(Emitted) = 3
    /\ Emitted[3] = TupleAB(Val("a", 3), Val("b", 2))

\* C6 (step): in unbounded mode a completion call delivers a final tuple iff
\* (reset and all and some label is present in the current tuple) or (reset
\* is off and no tuple was delivered so far); the tuple is the current,
\* possibly partial tuple.
C6_Step ==
    (UnboundedMode /\ IsComplete) =>
        IF \/ reset /\ all /\ DOMAIN curr # {}
           \/ ~reset /\ Emitted = <<>>
        THEN Emitted' = Append(Emitted, curr)
        ELSE Emitted' = Emitted

NonEmpty == {l \in DOMAIN cache : cache[l] # <<>>}

\* C7 (step): in backpressure mode the completion call delivers exactly one final
\* tuple if all is set and some queue is not empty, and nothing otherwise;
\* the tuple holds the front of every non-empty queue and nothing else; the
\* values behind the fronts are delivered by no later call.
C7_Step ==
    (FifoMode /\ IsComplete) =>
        IF phase = "open" /\ all /\ NonEmpty # {}
        THEN Emitted' = Append(Emitted, [l \in NonEmpty |-> Head(cache[l])])
        ELSE Emitted' = Emitted

\* C7: every completion call of the backpressure mode delivers exactly the
\* tuple of the fronts of the non-empty queues when all is set (first call),
\* and nothing otherwise.
C7_FifoFlush == [][C7_Step]_vars

\* C7 witness: a partial final tuple {a: a1} with a2 left behind it, and a
\* second completion call made
C7_Witness ==
    /\ FifoMode /\ all /\ ks = {"a", "b"} /\ inputs = <<"a", "a">>
    /\ phase = "recompleted"
    /\ Emitted = << [l \in {"a"} |-> Val("a", 1)] >>
    /\ cache["a"] = << Val("a", 2) >>

\* C8 (step): with all disabled a completion call delivers no tuple.
C8_Step == (~all /\ IsComplete) => Emitted' = Emitted

\* C8: in every run, for every mode and every value of reset and mergeOnly,
\* a completion call with all disabled delivers nothing.
C8_AllFalseNoFlush == [][C8_Step]_vars

\* C9: if every value received carries a label outside the (unmodified) key
\* set, no tuple is ever delivered, by no step call and by no completion.
C9_OutsideOnly ==
    (Unmutated /\ \A i \in 1..Len(inputs) : inputs[i] \notin ks) =>
        Emitted = <<>>

\* C10 (step): a second completion call delivers no tuple, for every
\* configuration and every preceding input.
C10_Step == (IsComplete /\ phase = "completed") => Emitted' = Emitted

\* C10: completion flushes at most once: in every run the second completion
\* call delivers no tuple.
C10_FlushOnce == [][C10_Step]_vars

\* C10 witness: the first completion flushed a tuple, the second call only
\* completed downstream
C10_Witness ==
    /\ phase = "recompleted"
    /\ Len(log) >= 3
    /\ log[Len(log) - 2].op = "step"
    /\ log[Len(log) - 1].op = "complete"
    /\ log[Len(log)].op = "complete"

\* labels of the key set that have received a value once this step's value is
\* counted, and the latest value of each
Received == {l \in ks : Count(inputs', l) > 0}
LatestOfAll == [l \in Received |-> Val(l, Count(inputs', l))]

\* C11 (step): mergeOnly set, no backpressure, unmodified key set: a step
\* call with a label of the key set delivers exactly one tuple, holding the
\* value itself and the latest value of every other label that received one.
C11_Step ==
    (mergeOnly /\ backPressure = 0 /\ Unmutated /\ IsIngest
        /\ key(Ingested) \in ks) =>
        Emitted' = Append(Emitted, LatestOfAll)

\* C11: with mergeOnly, for either value of reset, every value of a label of
\* the key set is delivered at once in a tuple that also holds the most
\* recent value of every other label received so far.
C11_MergeOnly == [][C11_Step]_vars

\* C12: with backPressure >= 1 the operator joins in FIFO order whatever
\* mergeOnly: also with mergeOnly set, the n-th tuple delivered by the step
\* calls maps every label of the (unmodified) key set to its n-th value, as
\* it does with mergeOnly off (C2).
C12_MergeOnlyIgnored ==
    (backPressure >= 1 /\ mergeOnly /\ Unmutated /\ phase = "open") =>
        \A n \in 1..Len(Emitted) : Emitted[n] = [l \in ks |-> Val(l, n)]

\* what one call adds to the log, and the tuples it delivers
NewEvents == SubSeq(log', Len(log) + 1, Len(log'))
NewTuples == ArgsOf(NewEvents, "step")

\* C13 (step): after every step of a run the pending tuple has labels of the
\* key set only, and so has every tuple the step delivered.
C13_Step ==
    /\ DOMAIN curr' \subseteq ks'
    /\ \A n \in 1..Len(NewTuples) : DOMAIN NewTuples[n] \subseteq ks'

\* C13: in both modes, the key set modified between calls or not, the labels
\* of the pending tuple and of every delivered tuple are labels the key set
\* holds at that time.
C13_LabelsInKeySet == [][C13_Step]_vars

\* C14 (step): backpressure branch: of the reduce calls of one step call only
\* the last can have returned a Reduced accumulator.
C14_Step ==
    (FifoMode /\ IsIngest) =>
        \A i \in 1..Len(NewEvents) :
            (NewEvents[i].op = "step" /\ NewEvents[i].reduced) =>
                i = Len(NewEvents)

\* C14: in the backpressure branch a Reduced accumulator returned for a tuple
\* of the drain loop ends the loop: the step call delivers no further tuple,
\* even when every label of the key set still has a queued value.
C14_StopOnReduced == [][C14_Step]_vars

\* C14 witness: the first reduce call of a step call returned Reduced while
\* every label of the (non-empty) key set still has a queued value
C14_Witness ==
    /\ FifoMode /\ phase = "open" /\ ks # {}
    /\ Len(log) >= 2
    /\ log[Len(log)].op = "step" /\ log[Len(log)].reduced
    /\ log[Len(log) - 1].op = "ingest"
    /\ requiredInputs(ks, currKeys)
    /\ \A l \in ks : l \in DOMAIN cache /\ cache[l] # <<>>

\* the queues once the value of this step call is pushed
Pushed ==
    LET k == key(Ingested)
    IN  Put(cache, k,
            Append(IF k \in DOMAIN cache THEN cache[k] ELSE <<>>, Ingested))

\* the j-th values of the queues q that hold at least j values
Fronts(q, j) == [l \in {i \in DOMAIN q : Len(q[i]) >= j} |-> q[l][j]]

\* C15 (step): a step call of the backpressure branch that takes its value
\* and does not overflow delivers, as its j-th tuple, the j-th queued value of
\* every label that has one, and unless the downstream returned Reduced it
\* goes on until some label of the key set has nothing queued.
C15_Step ==
    (FifoMode /\ IsIngest /\ key(Ingested) \in ks /\ ~err'.thrown) =>
        /\ \A j \in 1..Len(NewTuples) : NewTuples[j] = Fronts(Pushed, j)
        /\ ~reduced' =>
              \E l \in ks : l \notin DOMAIN cache' \/ cache'[l] = <<>>

\* C15: in the backpressure branch one step call can deliver two or more
\* tuples before it returns (C15_Witness), each made of the fronts of the
\* queues, the loop going on while every label of the key set has a queued
\* value.
C15_MultiDrain == [][C15_Step]_vars

\* C15 witness: the last step call delivered two tuples, neither answered with
\* Reduced
C15_Witness ==
    /\ FifoMode /\ phase = "open" /\ ~reduced
    /\ Len(log) >= 3
    /\ log[Len(log) - 2].op = "ingest"
    /\ log[Len(log) - 1].op = "step"
    /\ log[Len(log)].op = "step"

\* whether the value of this step call is held or delivered after the call
Accepted ==
    \/ \E l \in DOMAIN curr' : curr'[l] = Ingested
    \/ \E l \in DOMAIN cache' :
          \E i \in 1..Len(cache'[l]) : cache'[l][i] = Ingested
    \/ \E n \in 1..Len(NewTuples) :
          \E l \in DOMAIN NewTuples[n] : NewTuples[n][l] = Ingested

\* C16 (step): every step call tests the label of its value, and the presence
\* of every required label, against the key set as it is at that call.
C16_Step ==
    IsIngest =>
        /\ key(Ingested) \notin ks =>
              NewTuples = <<>> /\ UNCHANGED <<curr, currKeys, cache>>
        /\ (key(Ingested) \in ks /\ ~err'.thrown) => Accepted
        /\ ~mergeOnly => \A n \in 1..Len(NewTuples) :
              ks \subseteq DOMAIN NewTuples[n]
        /\ (key(Ingested) \in ks /\ ~mergeOnly /\ UnboundedMode) =>
              (NewTuples # <<>>) = (ks \subseteq currKeys \cup {key(Ingested)})
        /\ (key(Ingested) \in ks /\ FifoMode /\ ~err'.thrown) =>
              (NewTuples # <<>>) =
                  (\A l \in ks : l \in DOMAIN Pushed /\ Pushed[l] # <<>>)

\* C16: a key set given as a set is read at every step call: a value is taken
\* iff its label is in the key set at that call, and tuples are delivered iff
\* every label the key set holds at that call is present, so an added label
\* is required and accepted, and a removed label ignored, from the next call
\* on.
C16_LiveKeySet == [][C16_Step]_vars

\* C16 witness: default options, label b added to the key set {a} after the
\* first value of a was delivered: the second a waits for b, and b is
\* accepted and joined with it
C16_Witness ==
    /\ Default /\ mutations = 1 /\ ks = {"a", "b"}
    /\ inputs = <<"a", "a", "b">>
    /\ Emitted = << [l \in {"a"} |-> Val("a", 1)],
                    TupleAB(Val("a", 2), Val("b", 1)) >>

\* positions of the log at which a tuple was delivered after an earlier tuple
\* had been answered with a Reduced accumulator
AfterReduced ==
    {j \in 1..Len(log) :
        /\ log[j].op = "step"
        /\ \E i \in 1..(j - 1) : log[i].op = "step" /\ log[i].reduced}

C18_Step ==
    (IsIngest /\ key(Ingested) \notin ks) =>
        /\ UNCHANGED <<curr, currKeys, cache, first, reduced, err>>
        /\ NewTuples = <<>>
        /\ ~err'.thrown

\* C18: in both branches a value whose label is not in the key set is
\* ignored: the pending tuple, the present labels, every queue and the
\* accumulator stay as they are, no tuple is delivered and no error is
\* thrown.
C18_ForeignLabelNoOp == [][C18_Step]_vars

\* C18 witness: backpressure branch, a value of a is queued and the value of
\* the foreign label c that followed left everything as it was
C18_Witness ==
    /\ FifoMode /\ Unmutated /\ ks = {"a", "b"} /\ phase = "open"
    /\ inputs = <<"a", "c">>
    /\ cache = Put(EmptyObj, "a", <<Val("a", 1)>>)
    /\ currKeys = {"a"}
    /\ Emitted = <<>>
    /\ ~err.thrown

\* C19 (as claimed): in the backpressure branch the present labels are, in
\* every state, exactly the labels whose queue is not empty.
C19_PresentIsNonEmpty == FifoMode => currKeys = NonEmpty

\* C19 (amended): in the backpressure branch the present labels are exactly
\* the labels whose queue is not empty until completion is called; the
\* completion call clears the present labels and leaves the values behind the
\* fronts queued, so from then on they are a subset of those labels.
C19_PresentUntilComplete ==
    FifoMode =>
        IF phase = "open"
        THEN currKeys = NonEmpty
        ELSE currKeys \subseteq NonEmpty

\* C19 witness: a drain loop emptied the queue of b and left a value of a
\* queued: a alone is present
C19_Witness ==
    /\ FifoMode /\ phase = "open" /\ ks = {"a", "b"}
    /\ Len(Emitted) >= 1
    /\ NonEmpty = {"a"}
    /\ currKeys = {"a"}
    /\ "b" \in DOMAIN cache

\* C20 (step): a step call of the backpressure branch delivers at most as
\* many tuples as there are values queued when its loop starts (the queued
\* values and the one just pushed), every iteration taking at least one of
\* them off the queues.
C20_Step ==
    (FifoMode /\ IsIngest /\ key(Ingested) \in ks /\ ~err'.thrown) =>
        /\ Len(NewTuples) <= Buffered(Pushed)
        /\ Buffered(cache') + Len(NewTuples) <= Buffered(Pushed)
        /\ Len(NewTuples) < DrainCap

\* C20: every step call of the backpressure branch returns: its drain loop
\* runs at most as many times as there are values queued when it starts,
\* whatever the key set holds and whether or not the downstream returns a
\* Reduced accumulator.
C20_DrainTerminates == [][C20_Step]_vars

\* C20 witness: a step call ran the loop twice, the second tuple answered
\* with Reduced, after the key set was modified
C20_Witness ==
    /\ FifoMode /\ mutations > 0 /\ reduced
    /\ Len(log) >= 3
    /\ log[Len(log) - 2].op = "ingest"
    /\ log[Len(log) - 1].op = "step" /\ ~log[Len(log) - 1].reduced
    /\ log[Len(log)].op = "step" /\ log[Len(log)].reduced

\* C21 (step): a completion call ends with the one downstream completion it
\* makes; what it delivers before that is at most one tuple, the flush.
C21_Step ==
    IsComplete =>
        /\ NewEvents # <<>>
        /\ NewEvents[Len(NewEvents)].op = "complete"
        /\ \A i \in 1..(Len(NewEvents) - 1) : NewEvents[i].op = "step"
        /\ Len(NewEvents) <= 2

\* C21: every completion call, first or repeated, in both branches, completes
\* the downstream reducer exactly once, and the flushed tuple, if any, is
\* delivered before that completion and never after it.
C21_FlushThenComplete == [][C21_Step]_vars

\* C21 witness: the first branch without reset flushed the values received so
\* far, none delivered before, and then completed downstream
C21_Witness ==
    /\ UnboundedMode /\ ~reset /\ ~mergeOnly /\ phase = "completed"
    /\ ks = {"a", "b"} /\ inputs = <<"a">>
    /\ Len(log) = 3
    /\ log[2] = StepEv([l \in {"a"} |-> Val("a", 1)], FALSE)
    /\ log[3] = CompleteEv

\* C22 (step): backpressure branch, key set never modified: a step call
\* delivers at most one tuple, and it leaves some label of the key set with
\* nothing queued.
C22_Step ==
    (FifoMode /\ Unmutated /\ IsIngest) =>
        /\ Len(NewTuples) <= 1
        /\ ks # {} => \E l \in ks : l \notin DOMAIN cache' \/ cache'[l] = <<>>

\* C22: in the backpressure branch, as long as the key set is not modified, a
\* step call delivers at most one tuple: the value it pushes is the only one
\* queued for its label whenever every label has one, so the first tuple
\* empties that queue and ends the loop.
C22_OneTuplePerCall == [][C22_Step]_vars

\* C22 witness: a backlog of a, then the first b: one tuple, not answered with
\* Reduced, the second a still queued
C22_Witness ==
    /\ FifoMode /\ Unmutated /\ ~reduced /\ phase = "open"
    /\ ks = {"a", "b"} /\ inputs = <<"a", "a", "b">>
    /\ Emitted = << TupleAB(Val("a", 1), Val("b", 1)) >>
    /\ cache["a"] = << Val("a", 2) >>

\* C23 (step): a step call of the backpressure branch that throws the
\* overflow error leaves every queue, the present labels and the rest of the
\* state as they were, the rejected value queued nowhere, and delivers
\* nothing.
C23_Step ==
    (FifoMode /\ IsIngest /\ err'.thrown) =>
        /\ UNCHANGED <<cache, currKeys, curr, first, reduced>>
        /\ NewTuples = <<>>
        /\ \A l \in DOMAIN cache' :
              \A i \in 1..Len(cache'[l]) : cache'[l][i] # Ingested

\* C23: in the backpressure branch a step call that fails with the overflow
\* error changes nothing: the rejected value is not queued, no queue and not
\* the present labels change, and no tuple is delivered.
C23_OverflowNoChange == [][C23_Step]_vars

\* C23 witness: limit 2, labels a and b: the third a was rejected, the first
\* two still queued, b still missing
C23_Witness ==
    /\ FifoMode /\ backPressure = 2 /\ ks = {"a", "b"}
    /\ inputs = <<"a", "a", "a">>
    /\ err = IllegalState("a", 2)
    /\ cache = Put(EmptyObj, "a", << Val("a", 1), Val("a", 2) >>)
    /\ currKeys = {"a"}
    /\ Emitted = <<>>

====
